---- MODULE Spec2Model ----
(***************************************************************************)
(* Degradation Challenge Game (src/Degradation_Game.py): the session and   *)
(* timer state machine, the outcome generator and the pages of the app.    *)
(*                                                                         *)
(* One script run of main() is one step.  A run is started by a button     *)
(* click, by a widget change, by st.rerun() or by the refresh tick.        *)
(*                                                                         *)
(* Units: the clock counts ticks of 1/TicksPerSecond second; hours are in  *)
(* hundredths (2.9 h = 290) and thousandths where the code rounds;         *)
(* polymer concentrations are in hundredths of mg/mL, spectrum hours in    *)
(* tenths of an hour.                                                      *)
(***************************************************************************)
EXTENDS Integers, Sequences, FiniteSets, TLC

VARIABLES
    ss,      \* st.session_state: the record of the session's keys
    now,     \* the wall clock, time.time(), in ticks
    uuids,   \* how many uuid4() values the session has used
    run,     \* the last script run: its event and what it rendered
    batches, \* history: the Run Experiments operations of the session so
             \* far, None in behaviours that do not record it
    sim      \* a call of the outcome generator: its arguments and its value

vars == <<ss, now, uuids, run, batches, sim>>

----------------------------------------------------------------------------
(* Bounds of the model *)

MaxClock == 3          \* the clock stops advancing here
MaxDelay == 1          \* ticks that may pass before a user event
MaxEntries == 2        \* pending entries plus results of one attempt
MaxBatch == 6          \* the same, for a participant who stays on the builder
MaxAttempts == 1       \* resets (New Attempt) in one behaviour
MaxNoise == 2800       \* largest noise draw either way, in thousandths of an hour

(* Granularity of the clock: ticks per second *)
TicksPerSecond == 2

----------------------------------------------------------------------------
(* App-wide constants, lines 11-19 *)

TARGET_HOURS == 300
MAX_ENTRIES_PER_RUN == 5

SOLVENTS == <<"2MeTHF", "Toluene", "Chloroform">>
POLYMER_CONCENTRATION == <<1, 5, 10>>
ACIDS == <<"HCl", "TFA">>
ACID_CONCENTRATION == <<"50x", "100x", "300x", "600x", "900x">>
SPECTRUM_HOURS == <<5, 10, 20, 30, 40, 50>>

Range(f) == {f[i] : i \in DOMAIN f}

(* Python's None, for the nullable timestamps *)
None == -1

IsPrefix(a, b) == Len(a) <= Len(b) /\ SubSeq(b, 1, Len(a)) = a

Max(a, b) == IF a >= b THEN a ELSE b
Abs(a) == IF a >= 0 THEN a ELSE -a

----------------------------------------------------------------------------
(* Session and timer utilities, lines 24-97 *)

StateKeys ==
    {"page", "session_id", "survey", "consented", "pending_entries", "results",
     "timer_started_at", "timer_stopped_at", "timer_running",
     "first_opened_builder_at", "ended"}

EmptyDict == [k \in {} |-> ""]

(* dict.get(key, default) *)
DictGet(d, k, default) == IF k \in DOMAIN d THEN d[k] ELSE default

(* init_state(): setdefault on every key; a session that has its keys is
   left as it is. id is the uuid4() drawn for a new session. *)
init_state(s, id) ==
    IF DOMAIN s = StateKeys
    THEN s
    ELSE [page |-> "Welcome",
          session_id |-> id,
          survey |-> EmptyDict,
          consented |-> FALSE,
          pending_entries |-> <<>>,
          results |-> <<>>,
          timer_started_at |-> None,
          timer_stopped_at |-> None,
          timer_running |-> FALSE,
          first_opened_builder_at |-> None,
          ended |-> FALSE]

start_timer_if_needed_restamped(s, t) ==
    IF ~s.timer_running
    THEN [s EXCEPT !.timer_started_at = t, !.timer_running = TRUE]
    ELSE [s EXCEPT !.timer_started_at = t]

start_timer_if_needed(s, t) ==
    IF ~s.timer_running
    THEN [s EXCEPT !.timer_started_at = t, !.timer_running = TRUE]
    ELSE s

stop_timer(s, t) ==
    IF s.timer_running
    THEN [s EXCEPT !.timer_stopped_at = t, !.timer_running = FALSE]
    ELSE s

elapsed_seconds_stop_first(s, t) ==
    LET start == s.timer_started_at
        stop == s.timer_stopped_at
        running == s.timer_running
    IN  IF start = None THEN 0
        ELSE IF stop # None THEN stop - start
        ELSE IF running THEN t - start
        ELSE 0

(* elapsed_seconds(), in ticks *)
elapsed_seconds(s, t) ==
    LET start == s.timer_started_at
        stop == s.timer_stopped_at
        running == s.timer_running
    IN  IF start = None THEN 0
        ELSE IF running THEN Max(0, t - start)
        ELSE IF stop # None THEN Max(0, stop - start)
        ELSE 0

(* pretty_hms(): int(seconds) split into hours, minutes, seconds *)
pretty_hms(ticks) ==
    LET sec == ticks \div TicksPerSecond
    IN  <<sec \div 3600, (sec % 3600) \div 60, sec % 60>>

(* strftime of utcnow(): the clock truncated to whole seconds *)
strftime(t) == t \div TicksPerSecond

reset_for_new_attempt_clearing_consent(s, id) ==
    [s EXCEPT !.session_id = id,
              !.pending_entries = <<>>,
              !.results = <<>>,
              !.timer_started_at = None,
              !.timer_stopped_at = None,
              !.timer_running = FALSE,
              !.first_opened_builder_at = None,
              !.ended = FALSE,
              !.survey = EmptyDict,
              !.consented = FALSE,
              !.page = "Welcome"]

reset_for_new_attempt(s, id) ==
    [s EXCEPT !.session_id = id,
              !.pending_entries = <<>>,
              !.results = <<>>,
              !.timer_started_at = None,
              !.timer_stopped_at = None,
              !.timer_running = FALSE,
              !.first_opened_builder_at = None,
              !.ended = FALSE,
              !.page = "Welcome"]

----------------------------------------------------------------------------
(* Simple simulator, lines 102-141.  noise is the draw of
   np.random.normal(0, 0.15), in thousandths of an hour. *)

mult_val(mult) ==
    CASE mult = "50x" -> 50
      [] mult = "100x" -> 100
      [] mult = "300x" -> 300
      [] mult = "600x" -> 600
      [] mult = "900x" -> 900

(* np.round(x, 2) of x thousandths: round half to even, in hundredths *)
Round2(x) ==
    LET q == x \div 10
        r == x % 10
    IN  IF r < 5 THEN q
        ELSE IF r > 5 THEN q + 1
        ELSE IF q % 2 = 0 THEN q ELSE q + 1

base_degradation_time_unfloored(solvent, acid, mult, noise) ==
    LET t0 == 6000
        t1 == IF solvent = "2MeTHF" THEN t0 - 1200
              ELSE IF solvent = "Chloroform" THEN t0 - 600
              ELSE IF solvent = "Toluene" THEN t0 + 400
              ELSE t0
        t2 == IF acid = "HCl" THEN t1 - 800
              ELSE IF acid = "TFA" THEN t1 - 300
              ELSE t1
        m == mult_val(mult)
        t3 == IF m <= 50 THEN t2 + 1000
              ELSE IF m = 100 THEN t2 - 200
              ELSE IF m = 300 THEN t2 - 900
              ELSE IF m = 600 THEN t2 - 600
              ELSE IF m = 900 THEN t2 - 100
              ELSE t2
    IN  Round2(t3 + noise)

base_degradation_time_no_multiplier(solvent, acid, mult, noise) ==
    LET t0 == 6000
        t1 == IF solvent = "2MeTHF" THEN t0 - 1200
              ELSE IF solvent = "Chloroform" THEN t0 - 600
              ELSE IF solvent = "Toluene" THEN t0 + 400
              ELSE t0
        t2 == IF acid = "HCl" THEN t1 - 800
              ELSE IF acid = "TFA" THEN t1 - 300
              ELSE t1
    IN  Round2(Max(400, t2 + noise))

base_degradation_time(solvent, acid, mult, noise) ==
    LET t0 == 6000
        t1 == IF solvent = "2MeTHF" THEN t0 - 1200
              ELSE IF solvent = "Chloroform" THEN t0 - 600
              ELSE IF solvent = "Toluene" THEN t0 + 400
              ELSE t0
        t2 == IF acid = "HCl" THEN t1 - 800
              ELSE IF acid = "TFA" THEN t1 - 300
              ELSE t1
        m == mult_val(mult)
        t3 == IF m <= 50 THEN t2 + 1000
              ELSE IF m = 100 THEN t2 - 200
              ELSE IF m = 300 THEN t2 - 900
              ELSE IF m = 600 THEN t2 - 600
              ELSE IF m = 900 THEN t2 - 100
              ELSE t2
    IN  Round2(Max(400, t3 + noise))

closeness_score_signed(hours) == (hours - TARGET_HOURS) * 10

(* closeness_score(hours): hours in hundredths, the score in thousandths *)
closeness_score(hours) == Abs(hours - TARGET_HOURS) * 10

----------------------------------------------------------------------------
(* One script run's input: the widget the participant acted on and the
   values of the page's widgets.  At most one button is pressed per run. *)

NoCond == [solvent |-> "", polymer_conc |-> 0, acid |-> "", acid_conc |-> "",
           spectrum_hour |-> 0]

NoEvent == [sidebar |-> "", button |-> "", name |-> "", consent |-> FALSE,
            cond |-> NoCond, noises |-> <<>>, refresh |-> FALSE, choice |-> 0]

SidebarClick(p) == [NoEvent EXCEPT !.sidebar = p]

(* The run that the refresh tick starts: the sleep of lines 489-490 is over,
   no widget was touched *)
RefreshTick == [NoEvent EXCEPT !.refresh = TRUE]
ButtonClick(b) == [NoEvent EXCEPT !.button = b]

(* st.button(label, disabled=...): True in the run its click started, and
   never for a disabled button *)
st_button(ev, label, disabled) == ev.button = label /\ ~disabled

(* Nothing chosen in the select box of the results page, and no metrics *)
NoPhoto == [sel |-> 0, rec |-> 0]

NoMetrics == [total_entries |-> None, total_experiments |-> None]

(* What a page hands back to main(): the session state it leaves, whether it
   called st.rerun(), the exception that ended it ("" when none), the body
   buttons it drew, the rows it exported, the message it showed, the photo
   of the results page and the metrics of the progress page *)
Rendered(s) ==
    [ss |-> s, rerun |-> FALSE, error |-> "", buttons |-> {}, export |-> <<>>,
     msg |-> "", photo |-> NoPhoto, metrics |-> NoMetrics]

----------------------------------------------------------------------------
(* Sidebar, lines 146-171 *)

PAGES ==
    <<"Welcome", "Survey", "Instructions", "Experiment Builder",
      "Experiment Results", "Progress Tracker", "End Experiment">>

requires_consent ==
    {"Instructions", "Experiment Builder", "Experiment Results",
     "Progress Tracker", "End Experiment"}

(* sidebar() draws the clock readout, pretty_hms(elapsed_seconds()), from the
   time t of the run, then the seven page buttons *)
sidebar_ungated(s, t, ev) ==
    IF ev.sidebar \in Range(PAGES)
    THEN [s EXCEPT !.page = ev.sidebar]
    ELSE s

sidebar_starting_timer(s, t, ev) ==
    LET consented == s.consented
        disabled(p) == (p \in requires_consent) /\ ~consented
    IN  IF ev.sidebar \in Range(PAGES) /\ ~disabled(ev.sidebar)
        THEN IF ev.sidebar = "Experiment Builder"
             THEN start_timer_if_needed([s EXCEPT !.page = ev.sidebar], t)
             ELSE [s EXCEPT !.page = ev.sidebar]
        ELSE s

sidebar(s, t, ev) ==
    LET consented == s.consented
        disabled(p) == (p \in requires_consent) /\ ~consented
    IN  IF ev.sidebar \in Range(PAGES) /\ ~disabled(ev.sidebar)
        THEN [s EXCEPT !.page = ev.sidebar]
        ELSE s

----------------------------------------------------------------------------
(* Pages, lines 178-453 *)

page_welcome(s, ev) ==
    IF st_button(ev, "Go to Survey", FALSE)
    THEN [Rendered([s EXCEPT !.page = "Survey"]) EXCEPT !.rerun = TRUE]
    ELSE [Rendered(s) EXCEPT !.buttons = {"Go to Survey"}]

(* The survey's text inputs other than the name are not read anywhere else;
   the role and experience select boxes are at their first option *)
SurveyAnswers(name) ==
    [name |-> name, email |-> "mail", institution |-> "", department |-> "",
     role |-> "Undergraduate", experience |-> "None"]

page_survey(s, ev) ==
    IF st_button(ev, "Save and Continue", FALSE)
    THEN LET s1 == [s EXCEPT !.survey = SurveyAnswers(ev.name),
                             !.consented = ev.consent]
         IN  IF ~ev.consent
             THEN [Rendered(s1) EXCEPT !.buttons = {"Save and Continue"},
                                       !.msg = "Consent is required to continue."]
             ELSE [Rendered([s1 EXCEPT !.page = "Instructions"])
                       EXCEPT !.rerun = TRUE,
                              !.msg = "Consent recorded. Thank you!"]
    ELSE [Rendered(s) EXCEPT !.buttons = {"Save and Continue"}]

page_instructions(s, ev) ==
    IF st_button(ev, "I understand", FALSE)
    THEN IF ~s.consented
         THEN [Rendered(s) EXCEPT !.buttons = {"I understand"},
                                  !.msg = "Please complete the Survey"]
         ELSE [Rendered([s EXCEPT !.page = "Experiment Builder"])
                   EXCEPT !.rerun = TRUE]
    ELSE [Rendered(s) EXCEPT !.buttons = {"I understand"}]

(* The entry Add Entry appends, lines 296-304 *)
NewEntry(s, t, cond) ==
    [entry_id |-> <<DictGet(s.survey, "name", "anon"), strftime(t)>>,
     solvent |-> cond.solvent,
     polymer_conc |-> cond.polymer_conc,
     acid |-> cond.acid,
     acid_conc |-> cond.acid_conc,
     spectrum_hour |-> cond.spectrum_hour,
     added_at |-> strftime(t)]

(* The row Run Experiments makes of a pending entry, lines 325-337 *)
ResultRow(s, t, e, noise) ==
    LET hours == base_degradation_time(e.solvent, e.acid, e.acid_conc, noise)
    IN  [session_id |-> s.session_id,
         entry_id |-> e.entry_id,
         solvent |-> e.solvent,
         polymer_conc |-> e.polymer_conc,
         acid |-> e.acid,
         acid_conc |-> e.acid_conc,
         spectrum_hour |-> e.spectrum_hour,
         degradation_hours |-> hours,
         closeness |-> closeness_score(hours),
         run_at |-> strftime(t)]

can_run_uncapped(pending) == 0 < Len(pending)

can_run(pending) == 0 < Len(pending) /\ Len(pending) <= MAX_ENTRIES_PER_RUN

(* The rows of one run: one per pending entry, in the list's order.  An entry
   past the noise draws supplied gets a draw of 0. *)
run_rows_reversed(s, t, noises) ==
    LET n == Len(s.pending_entries)
    IN  [i \in 1..n |->
            ResultRow(s, t, s.pending_entries[n + 1 - i],
                      IF i \in DOMAIN noises THEN noises[i] ELSE 0)]

run_rows(s, t, noises) ==
    [i \in 1..Len(s.pending_entries) |->
        ResultRow(s, t, s.pending_entries[i],
                  IF i \in DOMAIN noises THEN noises[i] ELSE 0)]

BuilderButtons == {"Add Entry", "Clear Pending", "Run Experiments"}

clear_pending_and_results(s) ==
    [s EXCEPT !.pending_entries = <<>>, !.results = <<>>]

clear_pending(s) == [s EXCEPT !.pending_entries = <<>>]

page_builder(s, t, ev) ==
    IF ~s.consented
    THEN [Rendered(s) EXCEPT !.msg = "You must consent"]
    ELSE
      LET s1 == start_timer_if_needed(s, t)
          s2 == IF st_button(ev, "Add Entry", FALSE)
                THEN [s1 EXCEPT !.pending_entries =
                                    Append(@, NewEntry(s1, t, ev.cond))]
                ELSE s1
          s3 == IF st_button(ev, "Clear Pending", FALSE)
                THEN clear_pending(s2)
                ELSE s2
      IN  IF st_button(ev, "Run Experiments", ~can_run(s3.pending_entries))
          THEN [Rendered([s3 EXCEPT !.results = @ \o run_rows(s3, t, ev.noises),
                                    !.pending_entries = <<>>])
                    EXCEPT !.buttons = BuilderButtons, !.msg = "Run complete!"]
          ELSE [Rendered(s3) EXCEPT !.buttons = BuilderButtons]

(* Lines 358-360.  The select box lists the entry_id of every result, in
   order; choice is the position of the option the participant picked (the
   first option when the box was not touched), sel the string the box
   returns, and rec the position of the first result whose entry_id is sel *)
lookup_photo(s, choice) ==
    LET entry_ids == [i \in 1..Len(s.results) |-> s.results[i].entry_id]
        picked == IF choice \in 1..Len(entry_ids) THEN choice ELSE 1
        sel == entry_ids[picked]
        rec == CHOOSE i \in 1..Len(s.results) :
                   /\ s.results[i].entry_id = sel
                   /\ \A j \in 1..(i - 1) : s.results[j].entry_id # sel
    IN  [sel |-> picked, rec |-> rec]

(* page_results(): the table and the photo of the selected entry; nothing
   is written to the session *)
page_results(s, ev) ==
    IF s.results = <<>>
    THEN [Rendered(s) EXCEPT !.msg = "No results yet."]
    ELSE [Rendered(s) EXCEPT !.photo = lookup_photo(s, ev.choice)]

(* Lines 376-379: len(df) and df['run_at'].nunique() *)
progress_metrics(s) ==
    [total_entries |-> Len(s.results),
     total_experiments |->
         Cardinality({s.results[i].run_at : i \in 1..Len(s.results)})]

(* page_progress(): metrics and the dot plot; nothing is written *)
page_progress(s, ev) ==
    IF s.results = <<>>
    THEN [Rendered(s) EXCEPT !.msg = "No results yet."]
    ELSE [Rendered(s) EXCEPT !.metrics = progress_metrics(s)]

(* The attributes of the streamlit module that the app reads; st.session_id
   (line 417) is not one of them: reading it raises AttributeError *)
StAttributes ==
    {"session_state", "sidebar", "button", "markdown", "write", "columns",
     "image", "text_input", "selectbox", "checkbox", "warning", "success",
     "info", "rerun", "header", "subheader", "caption", "dataframe", "metric",
     "pyplot", "download_button", "set_page_config", "title"}

StModule == [a \in StAttributes |-> a]

(* The export frame, lines 409-419: one row per result, with the session
   columns assigned to every row *)
ExportRows(s, total_time) ==
    [i \in 1..Len(s.results) |->
        [result |-> s.results[i],
         participant_name |-> DictGet(s.survey, "name", ""),
         participant_email |-> DictGet(s.survey, "email", ""),
         session_id |-> StModule["session_id"],
         total_time_hms |-> total_time]]

page_end(s, t, ev, id) ==
    LET s1 == IF ~s.ended
              THEN [stop_timer(s, t) EXCEPT !.ended = TRUE]
              ELSE s
        total_time == pretty_hms(elapsed_seconds(s1, t))
    IN  IF s1.results # <<>> /\ "session_id" \notin StAttributes
        THEN [Rendered(s1) EXCEPT !.error = "AttributeError",
                                  !.msg = "Experiment ended."]
        ELSE
          LET export == IF s1.results # <<>>
                        THEN ExportRows(s1, total_time)
                        ELSE <<>>
          IN  IF st_button(ev, "New Attempt", FALSE)
              THEN [Rendered(reset_for_new_attempt(s1, id))
                        EXCEPT !.rerun = TRUE, !.export = export]
              ELSE [Rendered(s1) EXCEPT !.buttons = {"New Attempt"},
                                        !.export = export,
                                        !.msg = "Experiment ended."]

----------------------------------------------------------------------------
(* main(), lines 458-490.  The result adds to the page's result the page the
   router rendered and whether the run ended by scheduling the refresh tick
   (sleep one second, then st.rerun()). *)

main(s, t, ev, id) ==
    LET s0 == sidebar(init_state(s, id), t, ev)
        page == s0.page
        r == IF page = "Welcome" THEN page_welcome(s0, ev)
             ELSE IF page = "Survey" THEN page_survey(s0, ev)
             ELSE IF page = "Instructions" THEN page_instructions(s0, ev)
             ELSE IF page = "Experiment Builder" THEN page_builder(s0, t, ev)
             ELSE IF page = "Experiment Results" THEN page_results(s0, ev)
             ELSE IF page = "Progress Tracker" THEN page_progress(s0, ev)
             ELSE IF page = "End Experiment" THEN page_end(s0, t, ev, id)
             ELSE page_welcome(s0, ev)
        finished == ~r.rerun /\ r.error = ""
    IN  [ss |-> r.ss,
         rerun |-> r.rerun,
         error |-> r.error,
         buttons |-> r.buttons,
         export |-> r.export,
         msg |-> r.msg,
         photo |-> r.photo,
         metrics |-> r.metrics,
         rendered |-> page,
         tick |-> finished /\ r.ss.timer_running /\ ~r.ss.ended]

----------------------------------------------------------------------------
(* The inputs the participant and the noise source supply *)

Names == {"ann"}

Conditions ==
    {[solvent |-> SOLVENTS[1], polymer_conc |-> POLYMER_CONCENTRATION[1],
      acid |-> ACIDS[1], acid_conc |-> ACID_CONCENTRATION[3],
      spectrum_hour |-> SPECTRUM_HOURS[4]],
     [solvent |-> SOLVENTS[2], polymer_conc |-> POLYMER_CONCENTRATION[2],
      acid |-> ACIDS[2], acid_conc |-> ACID_CONCENTRATION[1],
      spectrum_hour |-> SPECTRUM_HOURS[1]]}

(* One standard deviation below the mean: the fastest conditions then land
   under the target (2.95 h), the slow ones stay over it *)
Noises == {-150}

----------------------------------------------------------------------------
(* The state machine *)

(* What is kept of a script run: the body button that was pressed ("" when
   none), whether the refresh tick started it, and what main() reported *)
RunRecord(ev, r) ==
    [button |-> ev.button,
     refresh |-> ev.refresh,
     rendered |-> r.rendered,
     rerun |-> r.rerun,
     error |-> r.error,
     buttons |-> r.buttons,
     export |-> r.export,
     photo |-> r.photo,
     metrics |-> r.metrics,
     tick |-> r.tick]

(* No call of the outcome generator is under observation *)
NoSim == [solvent |-> "", acid |-> "", mult |-> "", noise |-> 0, hours |-> None]

(* The first script run of a new browser session *)
Init ==
    LET r == main(EmptyDict, 0, NoEvent, 0)
    IN  /\ ss = r.ss
        /\ now = 0
        /\ uuids = 1
        /\ run = RunRecord(NoEvent, r)
        /\ batches = None
        /\ sim = NoSim

(* One script run, d ticks after the last one.  Where the history is
   recorded: a new session_id starts a new session, with no Run operation
   yet; a run that reached the success message of line 340 performed one. *)
Step(ev, d) ==
    /\ now + d <= MaxClock
    /\ now' = now + d
    /\ \E r \in {main(ss, now + d, ev, uuids)} :
           /\ ss' = r.ss
           /\ uuids' = IF r.ss.session_id # ss.session_id THEN uuids + 1 ELSE uuids
           /\ run' = RunRecord(ev, r)
           /\ batches' = IF batches = None THEN None
                         ELSE IF r.ss.session_id # ss.session_id THEN 0
                         ELSE IF r.msg = "Run complete!" THEN batches + 1
                         ELSE batches
    /\ UNCHANGED sim

(* The script is not about to re-run: the participant can act *)
Idle == ~run.rerun

Delays == 0..MaxDelay

ClickSidebar ==
    \E p \in Range(PAGES), d \in Delays :
        Idle /\ Step(SidebarClick(p), d)

ClickGoToSurvey ==
    \E d \in Delays :
        Idle /\ "Go to Survey" \in run.buttons
             /\ Step(ButtonClick("Go to Survey"), d)

ClickSaveAndContinue ==
    \E name \in Names, consent \in BOOLEAN, d \in Delays :
        Idle /\ "Save and Continue" \in run.buttons
             /\ Step([ButtonClick("Save and Continue")
                         EXCEPT !.name = name, !.consent = consent], d)

ClickUnderstand ==
    \E d \in Delays :
        Idle /\ "I understand" \in run.buttons
             /\ Step(ButtonClick("I understand"), d)

(* Add Entry, while the attempt holds fewer than cap entries and results *)
AddEntry(cap) ==
    \E cond \in Conditions, d \in Delays :
        Idle /\ "Add Entry" \in run.buttons
             /\ Len(ss.pending_entries) + Len(ss.results) < cap
             /\ Step([ButtonClick("Add Entry") EXCEPT !.cond = cond], d)

ClickAddEntry == AddEntry(MaxEntries)

ClickClearPending ==
    \E d \in Delays :
        Idle /\ "Clear Pending" \in run.buttons
             /\ Step(ButtonClick("Clear Pending"), d)

ClickRun ==
    \E noises \in [1..Len(ss.pending_entries) -> Noises], d \in Delays :
        Idle /\ "Run Experiments" \in run.buttons
             /\ Step([ButtonClick("Run Experiments") EXCEPT !.noises = noises], d)

ClickNewAttempt ==
    \E d \in Delays :
        Idle /\ "New Attempt" \in run.buttons
             /\ uuids <= MaxAttempts
             /\ Step(ButtonClick("New Attempt"), d)

(* A select box, text input or check box of the survey or of the builder
   changed: a run with no button *)
ChangeWidget ==
    \E d \in Delays :
        Idle /\ run.rendered \in {"Survey", "Experiment Builder"}
             /\ Step(NoEvent, d)

(* The participant picks an option of "Choose an entry" on the results page *)
ChooseEntry ==
    \E i \in 1..Len(ss.results), d \in Delays :
        Idle /\ run.rendered = "Experiment Results"
             /\ Step([NoEvent EXCEPT !.choice = i], d)

(* st.rerun(): the script runs again at once, no widget pressed *)
Rerun == run.rerun /\ Step(NoEvent, 0)

(* The refresh tick, lines 488-490: time.sleep(1), then st.rerun().  The
   select box of the results page keeps the option it shows. *)
Tick ==
    \E d \in Delays :
        Idle /\ run.tick
             /\ Step([RefreshTick EXCEPT !.choice = run.photo.sel],
                     TicksPerSecond + d)

Next ==
    \/ ClickSidebar
    \/ ClickGoToSurvey
    \/ ClickSaveAndContinue
    \/ ClickUnderstand
    \/ ClickAddEntry
    \/ ClickClearPending
    \/ ClickRun
    \/ ClickNewAttempt
    \/ ChangeWidget
    \/ ChooseEntry
    \/ Rerun
    \/ Tick

Spec == Init /\ [][Next]_vars

(* The same app, with the Run operations of the session counted *)
InitProgress ==
    LET r == main(EmptyDict, 0, NoEvent, 0)
    IN  /\ ss = r.ss
        /\ now = 0
        /\ uuids = 1
        /\ run = RunRecord(NoEvent, r)
        /\ batches = 0
        /\ sim = NoSim

SpecProgress == InitProgress /\ [][Next]_vars

----------------------------------------------------------------------------
(* A participant who stays on the Experiment Builder page: the session has
   consented, opened the builder at time 0 and has nothing pending.  Spec
   reaches this state (Welcome, Survey with consent, Instructions, builder). *)

BuilderOpened ==
    [page |-> "Experiment Builder",
     session_id |-> 0,
     survey |-> SurveyAnswers("ann"),
     consented |-> TRUE,
     pending_entries |-> <<>>,
     results |-> <<>>,
     timer_started_at |-> 0,
     timer_stopped_at |-> None,
     timer_running |-> TRUE,
     first_opened_builder_at |-> None,
     ended |-> FALSE]

InitBatch ==
    /\ ss = BuilderOpened
    /\ now = 0
    /\ uuids = 1
    /\ run = RunRecord(NoEvent, main(BuilderOpened, 0, NoEvent, 0))
    /\ batches = None
    /\ sim = NoSim

BuilderAddEntry == AddEntry(MaxBatch)

NextBatch ==
    \/ BuilderAddEntry
    \/ ClickClearPending
    \/ ClickRun
    \/ ChangeWidget
    \/ Tick

SpecBatch == InitBatch /\ [][NextBatch]_vars

(* The outcome generator on its own: one call of base_degradation_time, on
   any solvent, acid and multiplier of the select boxes and any noise draw
   within MaxNoise *)
InitGen ==
    LET r == main(EmptyDict, 0, NoEvent, 0)
    IN  /\ ss = r.ss
        /\ now = 0
        /\ uuids = 1
        /\ run = RunRecord(NoEvent, r)
        /\ batches = None
        /\ \E solvent \in Range(SOLVENTS), acid \in Range(ACIDS),
              mult \in Range(ACID_CONCENTRATION), noise \in -MaxNoise..MaxNoise :
               sim = [solvent |-> solvent, acid |-> acid, mult |-> mult,
                      noise |-> noise, hours |-> None]

Generate ==
    /\ sim.solvent # ""
    /\ sim.hours = None
    /\ sim' = [sim EXCEPT !.hours = base_degradation_time(sim.solvent, sim.acid,
                                                          sim.mult, sim.noise)]
    /\ UNCHANGED <<ss, now, uuids, run, batches>>

NextGen == Generate

SpecGen == InitGen /\ [][NextGen]_vars

(* The builder session's start is a state of the whole app *)
BuilderOpenedReached ==
    /\ ss = BuilderOpened
    /\ now = 0
    /\ uuids = 1
    /\ run = RunRecord(NoEvent, main(BuilderOpened, 0, NoEvent, 0))
    /\ batches = None
    /\ sim = NoSim

----------------------------------------------------------------------------
(* Timer *)

(* C1: in every reachable state, timer_running implies timer_stopped_at is
   null, and timer_stopped_at non-null implies timer_running is false. *)
C1_RunningExcludesStoppedAt ==
    /\ ss.timer_running => ss.timer_stopped_at = None
    /\ ss.timer_stopped_at # None => ~ss.timer_running

(* C2: once stop_timer() has taken effect (timer_stopped_at is set),
   elapsed_seconds() keeps its value, stopped_at - started_at, through every
   later step of the same session, until reset_for_new_attempt(). *)
C2_ElapsedFrozenAfterStop ==
    [][(ss.timer_stopped_at # None /\ ss'.session_id = ss.session_id)
          => /\ elapsed_seconds(ss', now') = elapsed_seconds(ss, now)
             /\ elapsed_seconds(ss', now')
                    = ss.timer_stopped_at - ss.timer_started_at]_vars

(* C3: after every render of the End Experiment page timer_running is false,
   and in every reachable state ended implies timer_running is false. *)
C3_EndedImpliesTimerStopped ==
    /\ run.rendered = "End Experiment" => ~ss.timer_running
    /\ ss.ended => ~ss.timer_running

----------------------------------------------------------------------------
(* Consent *)

(* C4: consent gate: whenever the current page is Instructions, Experiment
   Builder, Experiment Results, Progress Tracker or End Experiment, consented
   is true. *)
C4_ConsentGate == ss.page \in requires_consent => ss.consented

(* The gate at work: a participant who had consented and played saved the
   survey again with the box unchecked, and is held on the Survey page *)
C4_Witness ==
    /\ ~ss.consented
    /\ ss.timer_started_at # None
    /\ ss.page = "Survey"
    /\ run.button = "Save and Continue"

TimerStarts ==
    \/ ss.timer_started_at = None /\ ss'.timer_started_at # None
    \/ ~ss.timer_running /\ ss'.timer_running

SidebarLeavesTimer ==
    \A p \in Range(PAGES) :
        LET s1 == sidebar(ss, now, SidebarClick(p))
        IN  /\ s1.timer_started_at = ss.timer_started_at
            /\ s1.timer_stopped_at = ss.timer_stopped_at
            /\ s1.timer_running = ss.timer_running

(* C5: the timer never starts before consent: every step that sets
   timer_started_at from null to a timestamp, or timer_running to true, is a
   run that renders the Experiment Builder page with consented true; the
   sidebar's own navigation never touches the timer. *)
C5_TimerStartsOnlyInBuilderAfterConsent ==
    /\ []SidebarLeavesTimer
    /\ [][TimerStarts => /\ run'.rendered = "Experiment Builder"
                         /\ ss.consented
                         /\ ss'.consented
                         /\ ss'.timer_started_at = now']_vars

(* The timer started by a sidebar click on Experiment Builder *)
C5_Witness ==
    /\ ss.timer_running
    /\ ss.timer_started_at = now
    /\ now > 0
    /\ run.rendered = "Experiment Builder"
    /\ run.button = ""
    /\ ss.consented

----------------------------------------------------------------------------
(* Run batch *)

(* The condition fields a Result takes over from its entry *)
ConditionFields(r) ==
    <<r.entry_id, r.solvent, r.polymer_conc, r.acid, r.acid_conc, r.spectrum_hour>>

(* C6: running a batch of N pending entries, 1 <= N <= 5, appends exactly N
   Results, the i-th carrying the condition fields of the i-th pending entry,
   and empties pending_entries; the earlier results stay, unchanged, in
   front of the new ones. *)
C6_RunAppendsBatchInOrder ==
    [][(run'.button = "Run Experiments"
            /\ Len(ss.pending_entries) \in 1..MAX_ENTRIES_PER_RUN)
          => LET N == Len(ss.pending_entries)
                 old == Len(ss.results)
             IN  /\ Len(ss'.results) = old + N
                 /\ SubSeq(ss'.results, 1, old) = ss.results
                 /\ \A i \in 1..N :
                        ConditionFields(ss'.results[old + i])
                            = ConditionFields(ss.pending_entries[i])
                 /\ ss'.pending_entries = <<>>]_vars

(* A full batch of five, of different conditions, run after an earlier batch
   of one *)
C6_Witness ==
    /\ run.button = "Run Experiments"
    /\ ss.pending_entries = <<>>
    /\ Len(ss.results) = MAX_ENTRIES_PER_RUN + 1
    /\ ss.results[1].run_at < ss.results[2].run_at
    /\ \A i \in 2..(MAX_ENTRIES_PER_RUN + 1) : ss.results[i].run_at = ss.results[2].run_at
    /\ ss.results[2].solvent # ss.results[3].solvent

(* C7: a click on Run Experiments with 0 pending entries or with more than
   MAX_ENTRIES_PER_RUN is rejected: nothing in the session changes, no
   Result is appended, pending_entries stays, and no error is raised. *)
C7_RunRejectedOutsideBatchSize ==
    [][(run'.button = "Run Experiments"
            /\ Len(ss.pending_entries) \notin 1..MAX_ENTRIES_PER_RUN)
          => /\ ss' = ss
             /\ run'.error = ""
             /\ ~run'.rerun]_vars

(* Run Experiments pressed with six entries pending *)
C7_Witness ==
    /\ run.button = "Run Experiments"
    /\ Len(ss.pending_entries) > MAX_ENTRIES_PER_RUN

(* C8: results are append-only within a session: over every step that is not
   a reset, the results before the step are a prefix of the results after. *)
C8_ResultsAppendOnly ==
    [][ss'.session_id = ss.session_id => IsPrefix(ss.results, ss'.results)]_vars

(* Pending entries cleared while a result of an earlier run is kept *)
C8_Witness ==
    /\ run.button = "Clear Pending"
    /\ ss.results # <<>>
    /\ ss.pending_entries = <<>>

----------------------------------------------------------------------------
(* New attempt *)

(* C9: reset_for_new_attempt() gives a new session_id, empties
   pending_entries and results, nulls the timer, clears ended, goes to
   Welcome, and leaves the survey answers and consented as they were. *)
C9_ResetYieldsFreshSession ==
    [][run'.button = "New Attempt"
          => /\ ss'.session_id # ss.session_id
             /\ ss'.pending_entries = <<>>
             /\ ss'.results = <<>>
             /\ ss'.timer_started_at = None
             /\ ss'.timer_stopped_at = None
             /\ ~ss'.timer_running
             /\ ~ss'.ended
             /\ ss'.page = "Welcome"
             /\ ss'.survey = ss.survey
             /\ ss'.consented = ss.consented]_vars

(* New Attempt pressed by a participant who had consented *)
C9_Witness ==
    /\ run.button = "New Attempt"
    /\ ss.session_id = 1
    /\ ss.consented
    /\ ss.survey = SurveyAnswers("ann")
    /\ ss.page = "Welcome"

----------------------------------------------------------------------------
(* Export *)

(* C10: rendering the End Experiment page with results produces an export of
   one row per Result, each with the participant's name and email, the
   session's session_id and the total elapsed time, and raises no error. *)
C10_EndExportsEveryResult ==
    (run.rendered = "End Experiment" /\ ss.results # <<>>)
        => /\ run.error = ""
           /\ Len(run.export) = Len(ss.results)
           /\ \A i \in 1..Len(run.export) :
                  /\ run.export[i].result = ss.results[i]
                  /\ run.export[i].participant_name = DictGet(ss.survey, "name", "")
                  /\ run.export[i].participant_email = DictGet(ss.survey, "email", "")
                  /\ run.export[i].session_id = ss.session_id
                  /\ run.export[i].total_time_hms
                         = pretty_hms(elapsed_seconds(ss, now))

----------------------------------------------------------------------------
(* Refresh tick and timer arithmetic *)

(* C11: the run that the refresh tick starts changes no key of the session
   state, on whichever page the session is; and no tick is scheduled once the
   timer has stopped or the session has ended. *)
C11_RefreshLeavesSession ==
    /\ [][run'.refresh => ss' = ss]_vars
    /\ [](run.tick => /\ ss.timer_running
                      /\ ss.timer_stopped_at = None
                      /\ ~ss.ended)

(* A tick on the builder, entries pending, the clock ahead of the start *)
C11_Witness ==
    /\ run.refresh
    /\ run.rendered = "Experiment Builder"
    /\ ss.pending_entries # <<>>
    /\ now > ss.timer_started_at
    /\ run.tick

(* C12: elapsed_seconds() is never negative, is 0 while timer_started_at is
   null, and does not decrease over a step that keeps timer_running true. *)
C12_ElapsedNonNegativeMonotone ==
    /\ [](/\ elapsed_seconds(ss, now) >= 0
          /\ ss.timer_started_at = None => elapsed_seconds(ss, now) = 0)
    /\ [][(ss.timer_running /\ ss'.timer_running)
             => elapsed_seconds(ss', now') >= elapsed_seconds(ss, now)]_vars

(* The clock read while the timer runs, after time has passed *)
C12_Witness ==
    /\ ss.timer_running
    /\ run.refresh
    /\ elapsed_seconds(ss, now) >= TicksPerSecond

(* C13: start_timer_if_needed() is a no-op when the timer is running: every
   key of the session keeps its value, at whatever time it is called; and
   calling it twice in succession leaves what calling it once leaves. *)
C13_StartTimerIdempotent ==
    \A t1 \in now..MaxClock : \A t2 \in t1..MaxClock :
        /\ ss.timer_running => start_timer_if_needed(ss, t1) = ss
        /\ start_timer_if_needed(start_timer_if_needed(ss, t1), t2)
               = start_timer_if_needed(ss, t1)

(* The builder rendered again, later, while the timer runs *)
C13_Witness ==
    /\ ss.timer_running
    /\ run.rendered = "Experiment Builder"
    /\ now > ss.timer_started_at
    /\ now < MaxClock

----------------------------------------------------------------------------
(* End page and tick scheduling *)

(* C17: whenever the End Experiment page is displayed the New Attempt button
   is on it, so a session that has ended, with or without results, can start
   a new attempt from the End page. *)
C17_NewAttemptAlwaysOnEndPage ==
    (run.rendered = "End Experiment" /\ ~run.rerun)
        => /\ "New Attempt" \in run.buttons
           /\ run.error = ""

(* C18: a refresh tick is scheduled at the end of a run only if the
   participant has consented and the timer is running. *)
C18_TickOnlyWithConsentAndRunning ==
    run.tick => (ss.consented /\ ss.timer_running)

----------------------------------------------------------------------------
(* Progress Tracker *)

(* C19: whenever the Progress Tracker shows its metrics, "Total Experiments"
   is the number of Run Experiments operations performed in the session and
   "Total Entries" is the number of results *)
C19_TotalExperimentsCountsBatches ==
    run.metrics # NoMetrics =>
        /\ run.metrics.total_experiments = batches
        /\ run.metrics.total_entries = Len(ss.results)

----------------------------------------------------------------------------
(* Entry identifiers *)

(* C20: the entries of a session, pending or run, have pairwise different
   entry_id values, and the photo the results page shows is that of the
   result the participant chose *)
C20_EntryIdsUnique ==
    LET entries == ss.results \o ss.pending_entries
    IN  /\ \A i, j \in 1..Len(entries) :
               i # j => entries[i].entry_id # entries[j].entry_id
        /\ run.photo # NoPhoto => run.photo.rec = run.photo.sel

----------------------------------------------------------------------------
(* Outcome generator *)

(* C14: for every solvent, acid and multiplier of the select boxes and every
   noise draw, the generated hours are at least 0.4 h, and they are the
   value of the function at (solvent, acid, multiplier, noise draw) *)
C14_HoursAtLeastFloor ==
    sim.hours # None =>
        /\ sim.hours >= 40
        /\ sim.hours = base_degradation_time(sim.solvent, sim.acid, sim.mult,
                                             sim.noise)

(* The floor is what produced the value: fastest conditions, lowest draw *)
C14_Witness ==
    /\ sim.hours = 40
    /\ sim.solvent = "2MeTHF" /\ sim.acid = "HCl" /\ sim.mult = "300x"
    /\ sim.noise = -MaxNoise

ExampleCall ==
    /\ sim.solvent = "2MeTHF" /\ sim.acid = "HCl" /\ sim.mult = "300x"
    /\ sim.noise = 0
    /\ sim.hours # None

(* C15, as stated: with a noise draw of 0, 2MeTHF, HCl and 300x give 2.9 h *)
C15_ExampleGives290 == ExampleCall => sim.hours = 290

(* C15, amended: with a noise draw of 0, 2MeTHF, HCl and 300x give 3.1 h,
   the base 6.0 h less 1.2 (solvent), 0.8 (acid) and 0.9 (multiplier) *)
C15_ExampleGives310 == ExampleCall => sim.hours = 310

C15_Witness == ExampleCall /\ closeness_score(sim.hours) = 100

----------------------------------------------------------------------------
(* Closeness *)

(* C16: every result of the session carries as closeness the distance of its
   degradation_hours from the target of 3.0 h, whichever side of the target
   the hours fall on, and that closeness is never negative *)
C16_ClosenessIsDistanceFromTarget ==
    \A i \in 1..Len(ss.results) :
        LET r == ss.results[i]
        IN  /\ r.closeness >= 0
            /\ r.degradation_hours >= TARGET_HOURS
                   => r.closeness = (r.degradation_hours - TARGET_HOURS) * 10
            /\ r.degradation_hours < TARGET_HOURS
                   => r.closeness = (TARGET_HOURS - r.degradation_hours) * 10

(* One result under the target and one over it, from one run *)
C16_Witness ==
    /\ run.button = "Run Experiments"
    /\ \E i, j \in 1..Len(ss.results) :
           /\ ss.results[i].degradation_hours < TARGET_HOURS
           /\ ss.results[i].closeness > 0
           /\ ss.results[j].degradation_hours > TARGET_HOURS

====
